---- MODULE Spec2Model ----
(***************************************************************************)
(* Model of sound_recorder.py: the recording controls of RecordingFrame,   *)
(* the capture thread record_from_mic, the checkpoint thread               *)
(* backup_data_every, and the globals they share.                          *)
(***************************************************************************)
EXTENDS Integers, Sequences, FiniteSets, TLC

\* ---- bounds of the model ----
sample_rate == 2        \* SETTINGS.recording.sample_rate, frames per block
backup_interval == 2    \* SETTINGS.recording.backup_interval, seconds
MaxBlocks == 3          \* blocks the device delivers to the capture thread
MaxCheckpoints == 2     \* checkpoint files written

Samples == {0, 1}                    \* amplitudes of a frame
Devices == {1, 2}                    \* ids of sc.all_microphones()
Blocks == [1..sample_rate -> Samples]  \* what mic.record(numframes=sample_rate) can return

VARIABLES
    monitoring_event,   \* threading.Event, line 17
    recording_event,    \* threading.Event, line 18
    pause_event,        \* threading.Event, line 19
    input_source_id,    \* global, line 21
    data,               \* global, line 22: None or the array of frames
    backup_dir,         \* global, line 23
    label_time,         \* text of RecordingFrame.label_time
    recording_button,   \* text of RecordingFrame.recording_button
    capture,            \* the record_from_mic threads started so far
    backup,             \* the backup_data_every threads started so far
    checkpoints,        \* the backup_*.npz files written, in order
    realtime_levels,    \* global, line 20: per-channel levels read by update_levels
    monitor,            \* the monitoring_mic threads started so far
    session,            \* history: the state the operator's commands ask for
    pausePressed,       \* history: the pause button has been pressed
    reads,              \* history: blocks returned by mic.record in record_from_mic
    recReads            \* history: blocks returned while session = "Recording", since it began

vars == <<monitoring_event, recording_event, pause_event, input_source_id, data,
          backup_dir, label_time, recording_button, capture, backup, checkpoints,
          realtime_levels, monitor, session, pausePressed, reads, recReads>>

globals == <<monitoring_event, recording_event, pause_event, input_source_id, data, backup_dir>>
widgets == <<label_time, recording_button>>
levels == <<realtime_levels, monitor>>
history == <<session, pausePressed, reads, recReads>>

\* ---- values ----
None == [none |-> TRUE, arr |-> <<>>]
Array(frames) == [none |-> FALSE, arr |-> frames]
Shape0(d) == Len(d.arr)

IsPrefix(s, t) == Len(s) <= Len(t) /\ SubSeq(t, 1, Len(s)) = s

text_pause == "text_pause"
label_recording == "label_recording"
label_stop == "label_stop"

Pad2(n) == IF n < 10 THEN "0" \o ToString(n) ELSE ToString(n)

convert_seconds(seconds) ==
    LET hours == seconds \div 3600
        rest == seconds % 3600
        minutes == rest \div 60
        secs == rest % 60
    IN Pad2(hours) \o ":" \o Pad2(minutes) \o ":" \o Pad2(secs)

\* lines 77-79: the text the engine puts on label_time after an append
RecLabel(d) == "[REC " \o convert_seconds(Shape0(d) \div sample_rate) \o "]"

\* ---- the operator's view of the two buttons (docstrings, lines 194 and 205) ----
RecordButton(s) == IF s = "Idle" THEN "Recording" ELSE "Idle"
PauseButton(s) ==
    CASE s = "Recording" -> "Paused"
      [] s = "Paused" -> "Recording"
      [] OTHER -> s

Init ==
    /\ monitoring_event = TRUE
    /\ recording_event = FALSE
    /\ pause_event = FALSE
    /\ input_source_id \in Devices
    /\ data = None
    /\ backup_dir = 0
    /\ label_time = "00:00:00"
    /\ recording_button = label_recording
    /\ capture = <<>>
    /\ backup = <<>>
    /\ checkpoints = <<>>
    /\ realtime_levels = <<0, 0>>
    /\ monitor = <<>>
    /\ session = "Idle"
    /\ pausePressed = FALSE
    /\ reads = 0
    /\ recReads = 0

\* ---- operator commands (callbacks of the Tk main loop) ----

\* RecordingFrame.start_recording, lines 193-202
\* variant of StartGuard: the test of line 195 left out
StartGuardMissing(rec) == TRUE

StartGuard(rec) == ~rec

start_recording ==
    /\ session' = RecordButton(session)
    /\ recReads' = IF session = "Idle" THEN 0 ELSE recReads
    /\ IF StartGuard(recording_event)
       THEN /\ recording_event' = TRUE
            /\ recording_button' = label_stop
            /\ backup_dir' = Len(backup) + 1
            /\ backup' = Append(backup, [pc |-> "test", t |-> 0, dir |-> backup_dir',
                                         snap |-> None, live |-> 0, atFail |-> 0,
                                         ticks |-> 0])
            /\ capture' = Append(capture, [pc |-> "open", mic |-> 0, blk |-> <<>>])
       ELSE UNCHANGED <<recording_event, recording_button, backup_dir, backup, capture>>
    /\ UNCHANGED <<levels, monitoring_event, pause_event, input_source_id, data, label_time,
                   checkpoints, pausePressed, reads>>

\* RecordingFrame.pause_recording, lines 204-209
PauseTarget(rec) == IF ~rec THEN TRUE ELSE FALSE

pause_recording ==
    /\ session' = PauseButton(session)
    /\ pausePressed' = TRUE
    /\ pause_event' = PauseTarget(recording_event)
    /\ UNCHANGED <<levels, monitoring_event, recording_event, input_source_id, data, backup_dir,
                   widgets, capture, backup, checkpoints, reads, recReads>>

\* SettingFrame.set_input_source, lines 149-153
set_input_source(id) ==
    /\ input_source_id' = id
    /\ monitoring_event' = TRUE
    /\ UNCHANGED <<levels, recording_event, pause_event, data, backup_dir, widgets, capture,
                   backup, checkpoints, history>>

\* ---- record_from_mic, lines 62-82 ----
SetCapture(i, r) == capture' = [capture EXCEPT ![i] = r]

\* line 65: the recorder is opened on the device selected at that moment
CaptureOpen(i) ==
    /\ capture[i].pc = "open"
    /\ SetCapture(i, [capture[i] EXCEPT !.pc = "loop", !.mic = input_source_id])
    /\ UNCHANGED <<levels, globals, widgets, backup, checkpoints, history>>

\* line 66, and line 82 when the loop ends
CaptureLoop(i) ==
    /\ capture[i].pc = "loop"
    /\ IF recording_event
       THEN /\ SetCapture(i, [capture[i] EXCEPT !.pc = "read"])
            /\ UNCHANGED label_time
       ELSE /\ SetCapture(i, [capture[i] EXCEPT !.pc = "done"])
            /\ label_time' = "00:00:00"
    /\ UNCHANGED <<levels, globals, recording_button, backup, checkpoints, history>>

\* line 67: the blocking read returns one second of frames
CaptureRead(i) ==
    /\ capture[i].pc = "read"
    /\ reads < MaxBlocks
    /\ \E b \in Blocks : SetCapture(i, [capture[i] EXCEPT !.pc = "check", !.blk = b])
    /\ reads' = reads + 1
    /\ recReads' = IF session = "Recording" THEN recReads + 1 ELSE recReads
    /\ UNCHANGED <<levels, globals, widgets, backup, checkpoints, session, pausePressed>>

\* line 67: mic.record raises; nothing in record_from_mic catches it, the thread ends
CaptureReadFails(i) ==
    /\ capture[i].pc = "read"
    /\ SetCapture(i, [capture[i] EXCEPT !.pc = "failed"])
    /\ UNCHANGED <<levels, globals, widgets, backup, checkpoints, history>>

\* line 68, and line 81 when paused
CaptureCheck(i) ==
    /\ capture[i].pc = "check"
    /\ IF ~pause_event
       THEN /\ SetCapture(i, [capture[i] EXCEPT !.pc = "append"])
            /\ UNCHANGED label_time
       ELSE /\ SetCapture(i, [capture[i] EXCEPT !.pc = "loop"])
            /\ label_time' = text_pause
    /\ UNCHANGED <<levels, globals, recording_button, backup, checkpoints, history>>

\* variant of Concatenate: data = _data in every branch
ConcatenateRebinds(d, blk) == [raised |-> FALSE, data |-> Array(blk)]

\* variant of Concatenate: the first frame of the block is not stored
ConcatenatePartial(d, blk) ==
    IF d.none
    THEN [raised |-> FALSE, data |-> Array(SubSeq(blk, 2, Len(blk)))]
    ELSE [raised |-> TRUE, data |-> d]

\* lines 69-75: the new value of data, or the NameError raised at line 72
\* (is_silence_cut is not defined anywhere in the module)
Concatenate(d, blk) ==
    IF d.none
    THEN [raised |-> FALSE, data |-> Array(blk)]
    ELSE [raised |-> TRUE, data |-> d]

\* lines 69-79
CaptureAppend(i) ==
    /\ capture[i].pc = "append"
    /\ LET r == Concatenate(data, capture[i].blk) IN
         IF r.raised
         THEN /\ SetCapture(i, [capture[i] EXCEPT !.pc = "raised"])
              /\ UNCHANGED <<data, label_time>>
         ELSE /\ data' = r.data
              /\ label_time' = RecLabel(r.data)
              /\ SetCapture(i, [capture[i] EXCEPT !.pc = "loop"])
    /\ UNCHANGED <<levels, monitoring_event, recording_event, pause_event, input_source_id,
                   backup_dir, recording_button, backup, checkpoints, history>>

\* ---- backup_data_every, lines 46-54 ----
SetBackup(j, r) == backup' = [backup EXCEPT ![j] = r]

\* line 49
BackupLoop(j) ==
    /\ backup[j].pc = "test"
    /\ SetBackup(j, [backup[j] EXCEPT !.pc = IF recording_event THEN "sleep" ELSE "done"])
    /\ UNCHANGED <<levels, globals, widgets, capture, checkpoints, history>>

\* variant of BackupTick: a second spent with pause_event set is not counted
BackupTickUnpaused(j) ==
    /\ backup[j].pc = "sleep"
    /\ LET t == IF pause_event THEN backup[j].t ELSE backup[j].t + 1 IN
         SetBackup(j, [backup[j] EXCEPT !.t = t, !.ticks = @ + 1,
                                        !.pc = IF t >= backup_interval THEN "save" ELSE "test"])
    /\ UNCHANGED <<levels, globals, widgets, capture, checkpoints, history>>

\* lines 50-52 (ticks: the seconds the thread has slept since it started)
BackupTick(j) ==
    /\ backup[j].pc = "sleep"
    /\ LET t == backup[j].t + 1 IN
         SetBackup(j, [backup[j] EXCEPT !.t = t, !.ticks = @ + 1,
                                        !.pc = IF t >= backup_interval THEN "save" ELSE "test"])
    /\ UNCHANGED <<levels, globals, widgets, capture, checkpoints, history>>

\* line 53, evaluation of the arguments: the array bound to data at that moment
BackupSnapshot(j) ==
    /\ backup[j].pc = "save"
    /\ SetBackup(j, [backup[j] EXCEPT !.pc = "write", !.snap = data, !.live = Shape0(data)])
    /\ UNCHANGED <<levels, globals, widgets, capture, checkpoints, history>>

\* variant of savez_compressed: the last frame of the array is not in the file
savez_truncated(arr) ==
    IF Len(arr.arr) = 0 THEN arr.arr ELSE SubSeq(arr.arr, 1, Len(arr.arr) - 1)

\* np.savez_compressed(file, arr): the frames stored in the file
savez_compressed(arr) == arr.arr

\* a file of the backup directory; live is the length the buffer had when line 53
\* read data
Checkpoint(j, arr) ==
    [dir |-> backup[j].dir, content |-> savez_compressed(arr), live |-> backup[j].live]

\* variant of BackupWrite: the array is read from data when the file is written
BackupWriteRereads(j) ==
    /\ backup[j].pc = "write"
    /\ Len(checkpoints) < MaxCheckpoints
    /\ checkpoints' = Append(checkpoints, Checkpoint(j, data))
    /\ SetBackup(j, [backup[j] EXCEPT !.pc = "test", !.t = 0, !.snap = None])
    /\ UNCHANGED <<levels, globals, widgets, capture, history>>

\* lines 53-54: the file is written, t = 0
BackupWrite(j) ==
    /\ backup[j].pc = "write"
    /\ Len(checkpoints) < MaxCheckpoints
    /\ checkpoints' = Append(checkpoints, Checkpoint(j, backup[j].snap))
    /\ SetBackup(j, [backup[j] EXCEPT !.pc = "test", !.t = 0, !.snap = None])
    /\ UNCHANGED <<levels, globals, widgets, capture, history>>

\* variant of BackupWriteFails: the failure is handled by ending the session
BackupWriteFailsStops(j) ==
    /\ backup[j].pc = "write"
    /\ SetBackup(j, [backup[j] EXCEPT !.pc = "failed", !.atFail = Shape0(data)])
    /\ recording_event' = FALSE
    /\ UNCHANGED <<levels, monitoring_event, pause_event, input_source_id, data, backup_dir,
                   widgets, capture, checkpoints, history>>

\* line 53: np.savez_compressed raises; nothing in backup_data_every catches it, the
\* thread ends (atFail: the length of the buffer at that moment)
BackupWriteFails(j) ==
    /\ backup[j].pc = "write"
    /\ SetBackup(j, [backup[j] EXCEPT !.pc = "failed", !.atFail = Shape0(data)])
    /\ UNCHANGED <<levels, globals, widgets, capture, checkpoints, history>>

Next ==
    \/ start_recording
    \/ pause_recording
    \/ \E id \in Devices : set_input_source(id)
    \/ \E i \in DOMAIN capture : CaptureOpen(i)
    \/ \E i \in DOMAIN capture : CaptureLoop(i)
    \/ \E i \in DOMAIN capture : CaptureRead(i)
    \/ \E i \in DOMAIN capture : CaptureReadFails(i)
    \/ \E i \in DOMAIN capture : CaptureCheck(i)
    \/ \E i \in DOMAIN capture : CaptureAppend(i)
    \/ \E j \in DOMAIN backup : BackupLoop(j)
    \/ \E j \in DOMAIN backup : BackupTick(j)
    \/ \E j \in DOMAIN backup : BackupSnapshot(j)
    \/ \E j \in DOMAIN backup : BackupWrite(j)
    \/ \E j \in DOMAIN backup : BackupWriteFails(j)

Spec == Init /\ [][Next]_vars

\* ---- vocabulary of the properties ----

\* every capture thread is between two iterations: no block is read and not yet handled
EngineQuiet == \A i \in DOMAIN capture : capture[i].pc \notin {"check", "append"}

\* the operator has ended a session: start ... pause/resume ... stop
SessionStopped == session = "Idle" /\ recording_button = label_stop

\* elapsed time of the take: buffer length in frames / sample_rate
Elapsed(d) == Shape0(d) \div sample_rate

\* frames is a prefix of the buffer d made of a whole number of blocks
WholeBlocksOf(frames, d) == IsPrefix(frames, d.arr) /\ Len(frames) % sample_rate = 0

\* ---- C1 ----
\* C1 (as claimed): after start, pause/resume commands and stop, the buffer holds
\* exactly sample_rate frames for each block read while the session was Recording,
\* and nothing for the blocks read while it was Paused.
C1_BufferIsRecordingBlocks ==
    (SessionStopped /\ EngineQuiet) => Shape0(data) = sample_rate * recReads

\* ---- C2 ----
\* C2 (as claimed): the pause command issued while recording_event is set and
\* pause_event is clear sets pause_event.
C2_PauseSetsPauseEvent ==
    [][(recording_event /\ ~pause_event /\ pause_recording) => pause_event']_vars

\* ---- C3 ----
\* C3 (as claimed): the record button pressed while a session is active clears
\* recording_event.
C3_StopClearsRecordingEvent ==
    [][(recording_event /\ start_recording) => ~recording_event']_vars

\* ---- C4 ----
\* C4 (as claimed): with no pause command ever issued, once the n-th block has been
\* read and handled the buffer holds n * sample_rate frames and label_time shows
\* convert_seconds(n).
C4_EveryBlockAppended ==
    (~pausePressed /\ EngineQuiet) =>
        /\ Shape0(data) = reads * sample_rate
        /\ reads >= 1 => label_time = "[REC " \o convert_seconds(reads) \o "]"

C6_PauseWhileIdleChangesNothing ==
    [][(~recording_event /\ pause_recording) =>
        UNCHANGED <<recording_event, pause_event, data, backup_dir>>]_vars

\* ---- C7 ----
\* C7 (as claimed): in a step that leaves the session Recording the elapsed time does
\* not decrease, and in a step that leaves the session Paused it does not change.
C7_ElapsedMonotoneAndFrozen ==
    [][/\ (session = "Recording" /\ session' = "Recording") => Elapsed(data') >= Elapsed(data)
       /\ (session = "Paused" /\ session' = "Paused") => Elapsed(data') = Elapsed(data)]_vars

\* ---- C8 ----
\* C8: in every step the old buffer is a prefix of the new one, an array is never
\* replaced by None, and a step that changes the buffer adds, at its end, the block
\* a capture thread has just read.
C8_AppendOnly ==
    [][/\ IsPrefix(data.arr, data'.arr)
       /\ data'.none => data.none
       /\ data' # data =>
             \E i \in DOMAIN capture :
                 /\ capture[i].pc = "append"
                 /\ data'.arr = data.arr \o capture[i].blk]_vars

\* a block has been appended, and a later block has been read
C8_Witness == Shape0(data) = sample_rate /\ reads >= 2

\* ---- C9 ----
\* C9: the content of every checkpoint, and of the array a backup thread holds while
\* it writes, is a prefix of the buffer made of a whole number of blocks.
C9_CheckpointIsWholeBlocks ==
    /\ \A k \in DOMAIN checkpoints : WholeBlocksOf(checkpoints[k].content, data)
    /\ \A j \in DOMAIN backup : WholeBlocksOf(backup[j].snap.arr, data)

\* a checkpoint that holds a block has been written
C9_Witness == \E k \in DOMAIN checkpoints : Len(checkpoints[k].content) = sample_rate

\* ---- C10 ----
\* C10: no checkpoint, written or being written, holds more frames than the buffer
\* had when line 53 read data.
C10_CheckpointWithinLiveLength ==
    /\ \A k \in DOMAIN checkpoints : Len(checkpoints[k].content) <= checkpoints[k].live
    /\ \A j \in DOMAIN backup : Len(savez_compressed(backup[j].snap)) <= backup[j].live

\* a checkpoint is being written and the capture thread has appended a block since
\* the write began
C10_Witness ==
    \E j \in DOMAIN backup : backup[j].pc = "write" /\ backup[j].live < Shape0(data)

\* ---- C11 ----
\* C11 (as claimed): once a device read has failed the recording signal no longer
\* reads as active, and the frames captured before the failure are still in the buffer.
C11_ReadFailureStopsSession ==
    (\E i \in DOMAIN capture : capture[i].pc = "failed") => ~recording_event

C13_WriteFailureKeepsSchedule ==
    [][\A j \in DOMAIN backup : BackupWriteFails(j) => backup'[j].pc = "test"]_vars

\* ---- C15 ----
\* C15 (as claimed): whenever a device is selected and monitoring_event is set, a
\* monitoring_mic thread is running (and publishes the peaks of the blocks it reads
\* in realtime_levels).
C15_LevelMonitorRuns ==
    (monitoring_event /\ input_source_id \in Devices) => Len(monitor) >= 1

\* ---- C16 ----
\* C16 (as claimed): set_input_source called while recording_event is set leaves
\* input_source_id unchanged.
C16_NoDeviceChangeWhileActive ==
    [][(recording_event /\ \E id \in Devices : set_input_source(id)) =>
        UNCHANGED input_source_id]_vars

\* ---- C17 ----
\* the checkpoint writes thread j has begun: its files, and the one in progress
WritesBegun(j) ==
    Len(SelectSeq(checkpoints, LAMBDA c : c.dir = backup[j].dir))
        + (IF backup[j].pc \in {"save", "write", "failed"} THEN 1 ELSE 0)

\* C17: whatever pause_event is, a backup thread has begun one checkpoint write for
\* every backup_interval seconds it has slept, none before the first backup_interval
\* seconds, and t counts the seconds since the last write.
C17_ScheduleIgnoresPause ==
    \A j \in DOMAIN backup :
        /\ WritesBegun(j) = backup[j].ticks \div backup_interval
        /\ backup[j].pc \in {"test", "sleep"} => backup[j].t = backup[j].ticks % backup_interval
        /\ backup[j].pc \in {"save", "write", "failed"} => backup[j].t = backup_interval

\* a checkpoint has been written in a session that is paused
C17_Witness == recording_event /\ pause_event /\ Len(checkpoints) >= 1

\* ---- C18 ----
\* C18 (as claimed): a block handled with pause_event clear and the buffer not empty
\* is appended whole.
C18_SilenceNeverDropsFrames ==
    [][\A i \in DOMAIN capture :
          (~data.none /\ CaptureAppend(i)) => data'.arr = data.arr \o capture[i].blk]_vars

\* ---- C19 ----
\* C19: the buffer always holds a whole number of blocks.
C19_WholeSeconds == Shape0(data) % sample_rate = 0

\* the first block was discarded with pause_event set, pause_event was cleared before
\* the second block was handled, and the second block has been appended whole
C19_Witness ==
    /\ reads = 2 /\ Shape0(data) = sample_rate /\ ~pause_event
    /\ \E i \in DOMAIN capture : capture[i].pc = "loop"

====
